---- MODULE Spec2Model ----
(***************************************************************************)
(* Model of app_real_time_data.py: three data tool adapters that work on   *)
(* a remote agent service, four assistant agents in a round-robin group    *)
(* chat with the termination condition                                     *)
(*   TextMentionTermination("Decision Made") | MaxMessageTermination(15),  *)
(* and the driver loop run_realtime_analysis that runs the team, sleeps    *)
(* and repeats.                                                            *)
(*                                                                         *)
(* A text is a sequence of word tokens; a message is a record of its       *)
(* source and its text.  The team object, the agents, the termination      *)
(* condition and the remote project client are module-level objects of     *)
(* the program: their fields are the variables below and live as long as   *)
(* the process.                                                            *)
(***************************************************************************)
EXTENDS Integers, Sequences, FiniteSets, TLC

\* ---------------------------------------------------------------- bounds
\* Number of cycles the driver may start (the loop itself is unbounded).
MaxCycles == 2

\* Number of tool calls made over the life of the process, when the whole
\* program runs.
MaxToolCalls == 1

\* Number of tool calls made one after the other when the tool adapters are
\* explored on their own.
MaxAdapterCalls == 4

\* Length up to which transcripts are grown when the termination condition
\* is evaluated on its own.
MaxTranscript == 16

\* ------------------------------------------------------ program constants
\* MaxMessageTermination(15)
MaxMessages == 15

\* TextMentionTermination("Decision Made")
Marker == <<"Decision", "Made">>

\* The participants of RoundRobinGroupChat, in the order given.
Roster == <<"stock_trends_agent", "news_agent", "sentiment_agent", "decision_agent">>

Agents == {Roster[i] : i \in 1..Len(Roster)}

\* Tool lists in which the news tool is also given to the sentiment agent.
Tools_Shared(agent) ==
  CASE agent = "stock_trends_agent" -> {"stock_price_trends_tool", "realtime_stock_price_tool"}
    [] agent \in {"news_agent", "sentiment_agent"} -> {"news_analysis_tool"}
    [] OTHER -> {}

\* tools=[...] of each AssistantAgent.
Tools(agent) ==
  CASE agent = "stock_trends_agent" -> {"stock_price_trends_tool", "realtime_stock_price_tool"}
    [] agent = "news_agent" -> {"news_analysis_tool"}
    [] OTHER -> {}

\* Environment values the Azure OpenAI model client is constructed from.
ModelClientKeys ==
  {"MODEL_DEPLOYMENT_NAME", "MODEL_API_VERSION", "AZURE_ENDPOINT", "api_key"}

\* A project client setup that does not look up the Bing connection.
ProjectClientKeys_NoBing == {"PROJECT_CLIENT_ENDPOINT"}

\* Environment values the project client and the Bing connection lookup are
\* made from.
ProjectClientKeys == {"PROJECT_CLIENT_ENDPOINT", "BING_CONNECTION_NAME"}

\* The environment values the module's client setup uses
\* (PROJECT_CONNECTION_STRING is read as well, but nothing uses it).
ConfigKeys ==
  {"api_key", "BING_CONNECTION_NAME", "MODEL_DEPLOYMENT_NAME", "MODEL_API_VERSION",
   "AZURE_ENDPOINT", "PROJECT_CLIENT_ENDPOINT"}

\* The client setup at module level goes through: every value a client is
\* made from is there (os.getenv gives None for an absent one, which the
\* client constructors and the connection lookup reject).
ClientSetupSucceeds(cfg) ==
  ModelClientKeys \subseteq cfg /\ ProjectClientKeys \subseteq cfg

\* main(): stock_name = "ICICIBANK.NS", interval=60.
StockName == "ICICIBANK.NS"
Interval == 60

\* The task string handed to run_stream, built from stock_name.
TaskText(name) == <<"Analyze", name, "make", "investment", "decision">>

TaskMessage(name) == [source |-> "user", content |-> TaskText(name)]

\* ------------------------------------------------------------------ texts
\* Texts a model backend may answer with.
PlainReply == <<"analysis">>
MarkerReply == <<"INVEST", "Decision", "Made">>

\* What the remote agent service answers, and what the adapters build.
SummaryText == <<"summary">>
PriceText == <<"As", "of", "now", "price", "of", "ICICIBANK.NS">>
SentinelText == <<"Could", "not", "fetch", "price", "for", "ICICIBANK.NS">>
ErrorText == <<"Error">>

\* The user message the adapter posts on the remote thread.
PromptText(tool) ==
  IF tool = "stock_price_trends_tool"
  THEN <<"Get", "trends", "for", "ICICIBANK.NS">>
  ELSE <<"Find", "news", "about", "ICICIBANK.NS">>

\* `marker in text` on strings: the marker occurs as a contiguous part.
Contains(text, marker) ==
  \E i \in 1..(Len(text) - Len(marker) + 1) :
    SubSeq(text, i, i + Len(marker) - 1) = marker

VARIABLES
  config,             \* names of the environment values that are set
  pc,                 \* position of run_realtime_analysis
  cycle,              \* number of runs the driver has started
  sleeps,             \* number of completed asyncio.sleep(interval)
  slept,              \* seconds slept so far
  stock_name,         \* stock_name of run_realtime_analysis
  interval,           \* interval of run_realtime_analysis
  transcript,         \* messages streamed by the current run_stream call
  stop_reason,        \* how the current / last run ended
  message_thread,     \* the team's message thread
  model_context,      \* each agent's model context: the length of the prefix
                      \* of the team's thread it holds
  next_speaker_index, \* round-robin position of the team
  speaker,            \* agent whose turn is in progress, or "none"
  message_count,      \* counter of MaxMessageTermination
  tool_results,       \* results of the tool calls of the turn in progress
  tool_calls,         \* number of tool calls made so far
  last_call,          \* the latest tool call: who, what, with which outcome
  remote_agents,      \* ids of live remote agents
  remote_threads,     \* ids of live remote threads
  next_remote_id      \* id the remote service hands out next

vars ==
  <<config, pc, cycle, sleeps, slept, stock_name, interval, transcript,
    stop_reason, message_thread, model_context,
    next_speaker_index, speaker, message_count, tool_results, tool_calls,
    last_call, remote_agents, remote_threads, next_remote_id>>

driverVars == <<pc, cycle, sleeps>>
teamVars == <<transcript, stop_reason, message_thread, model_context,
              next_speaker_index, speaker, message_count>>
toolVars == <<tool_results, tool_calls, last_call, remote_agents,
              remote_threads, next_remote_id>>

NoCall == [agent |-> "none", tool |-> "none", nodata |-> FALSE,
           raised |-> FALSE, value |-> <<>>, created_agents |-> {},
           deleted_agents |-> {}, created_threads |-> {}]

Init ==
  /\ config \in SUBSET ConfigKeys
  /\ pc = "startup"
  /\ cycle = 0
  /\ sleeps = 0
  /\ slept = 0
  /\ stock_name = StockName
  /\ interval = Interval
  /\ transcript = <<>>
  /\ stop_reason = "none"
  /\ message_thread = <<>>
  /\ model_context = [a \in Agents |-> 0]
  /\ next_speaker_index = 0
  /\ speaker = "none"
  /\ message_count = 0
  /\ tool_results = <<>>
  /\ tool_calls = 0
  /\ last_call = NoCall
  /\ remote_agents = {}
  /\ remote_threads = {}
  /\ next_remote_id = 1

\* ----------------------------------------------------------- termination
\* TextMentionTermination.__call__: some message of the delta has the text.
TextMention(delta) ==
  \E i \in 1..Len(delta) : Contains(delta[i].content, Marker)

\* A counter that never counts.
CountMessages_NoCount(count, delta) == count

\* A counter that also counts the tool call request and the tool call
\* execution event of every tool call of the turn.
CountMessages_WithEvents(count, delta) == count + Len(delta) + 2 * Len(tool_results)

\* MaxMessageTermination.__call__: the counter after the delta was counted.
CountMessages(count, delta) == count + Len(delta)

\* A maximum that is reached one message late.
MaxMessageReached_Late(count) == count > MaxMessages

\* A maximum that holds only at the very message that reaches it.
MaxMessageReached_Exact(count) == count = MaxMessages

\* MaxMessageTermination.__call__: the counter has reached the maximum.
MaxMessageReached(count) == count >= MaxMessages

\* The two conditions combined with & instead of |.
ShouldStop_And(delta, count) ==
  TextMention(delta) /\ MaxMessageReached(CountMessages(count, delta))

\* TextMentionTermination(...) | MaxMessageTermination(...)
ShouldStop(delta, count) ==
  TextMention(delta) \/ MaxMessageReached(CountMessages(count, delta))

\* Which of the two conditions produced the stop message.
StopReason(delta, count) ==
  IF TextMention(delta)
  THEN (IF MaxMessageReached(CountMessages(count, delta)) THEN "both" ELSE "text")
  ELSE (IF MaxMessageReached(CountMessages(count, delta)) THEN "max" ELSE "none")

\* RoundRobinGroupChat: the speaker at the current position.
SelectSpeaker(index) == Roster[index + 1]

\* RoundRobinGroupChat: the position after a speaker was selected.
AdvanceIndex(index) == (index + 1) % Len(Roster)

\* ----------------------------------------------------------- tool adapters
\* The remote calls of stock_price_trends_tool / news_analysis_tool in the
\* order the code makes them; "none" stands for "no call fails".
StepNo(step) ==
  CASE step = "create_agent" -> 1
    [] step = "create_thread" -> 2
    [] step = "create_message" -> 3
    [] step = "create_and_process_run" -> 4
    [] step = "list_messages" -> 5
    [] step = "delete_agent" -> 6
    [] OTHER -> 7

RemoteSteps ==
  {"create_agent", "create_thread", "create_message", "create_and_process_run",
   "list_messages", "delete_agent"}

\* The step completed when the call that fails is `fail`.
Completed(step, fail) == StepNo(step) < StepNo(fail)

\* What list_messages holds at position 0 of "data" when every remote call
\* went through: the remote assistant's answer, only the posted user message
\* (the remote run produced nothing), or nothing at all.
Responses == {"assistant", "user_only", "empty"}

\* How a call of a Bing-based adapter can go: one remote call fails, or all
\* go through and list_messages holds one of the responses.
BingOutcomes == RemoteSteps \cup Responses

\* An adapter that never deletes the remote agent it created.
BingToolCall_NoDelete(tool, outcome, agents, threads, id) ==
  LET fail == IF outcome \in RemoteSteps THEN outcome ELSE "none"
      made_agent == Completed("create_agent", fail)
      made_thread == Completed("create_thread", fail)
      deleted == FALSE
      aid == id
      tid == id + 1
      raised == fail # "none" \/ outcome = "empty"
  IN [agents |-> IF made_agent /\ ~deleted THEN agents \cup {aid} ELSE agents,
      threads |-> IF made_thread THEN threads \cup {tid} ELSE threads,
      next_id |-> IF made_thread THEN id + 2 ELSE IF made_agent THEN id + 1 ELSE id,
      created_agents |-> IF made_agent THEN {aid} ELSE {},
      deleted_agents |-> IF deleted THEN {aid} ELSE {},
      created_threads |-> IF made_thread THEN {tid} ELSE {},
      nodata |-> outcome \in {"user_only", "empty"},
      raised |-> raised,
      value |-> IF raised THEN <<>>
                ELSE IF outcome = "assistant" THEN SummaryText
                ELSE PromptText(tool)]

\* stock_price_trends_tool and news_analysis_tool: same body, different
\* prompt.  The result tells what the call left on the remote service,
\* whether it raised, and the returned text.
BingToolCall(tool, outcome, agents, threads, id) ==
  LET fail == IF outcome \in RemoteSteps THEN outcome ELSE "none"
      made_agent == Completed("create_agent", fail)
      made_thread == Completed("create_thread", fail)
      deleted == Completed("delete_agent", fail)
      aid == id
      tid == id + 1
      raised == fail # "none" \/ outcome = "empty"
  IN [agents |-> IF made_agent /\ ~deleted THEN agents \cup {aid} ELSE agents,
      threads |-> IF made_thread THEN threads \cup {tid} ELSE threads,
      next_id |-> IF made_thread THEN id + 2 ELSE IF made_agent THEN id + 1 ELSE id,
      created_agents |-> IF made_agent THEN {aid} ELSE {},
      deleted_agents |-> IF deleted THEN {aid} ELSE {},
      created_threads |-> IF made_thread THEN {tid} ELSE {},
      nodata |-> outcome \in {"user_only", "empty"},
      raised |-> raised,
      value |-> IF raised THEN <<>>
                ELSE IF outcome = "assistant" THEN SummaryText
                ELSE PromptText(tool)]

\* How a call of realtime_stock_price_tool can go: the yfinance history has
\* rows, it is empty (data.empty), or yf.Ticker / ticker.history raises (no
\* network, rate limit): nothing in the adapter catches that.
RealtimeOutcomes == {"data", "empty", "raises"}

\* realtime_stock_price_tool: works on yfinance only, never on the remote
\* agent service.
RealtimeToolCall(outcome, agents, threads, id) ==
  [agents |-> agents,
   threads |-> threads,
   next_id |-> id,
   created_agents |-> {},
   deleted_agents |-> {},
   created_threads |-> {},
   nodata |-> outcome = "empty",
   raised |-> outcome = "raises",
   value |-> IF outcome = "raises" THEN <<>>
             ELSE IF outcome = "empty" THEN SentinelText
             ELSE PriceText]

\* The tool result the agent gets: the returned text, or the error text the
\* agent framework makes of a raised exception.
ToolResultText(result) == IF result.raised THEN ErrorText ELSE result.value

RECURSIVE JoinTexts(_)
\* The tool call summary: the results of the turn, one after the other.
JoinTexts(texts) ==
  IF texts = <<>> THEN <<>> ELSE Head(texts) \o JoinTexts(Tail(texts))

\* Texts the model backend of an agent may answer with directly: the
\* decision agent, told to end with the marker, may do so or not.
Replies(agent) ==
  IF agent = "decision_agent"
  THEN {PlainReply, MarkerReply}
  ELSE {PlainReply}

\* ---------------------------------------------------------------- actions
\* A driver that starts the next run right after a run has ended.
AfterRun_NoSleep == "loop"

\* Where run_realtime_analysis goes when Console(run_stream(...)) returns:
\* it prints the waiting line and awaits asyncio.sleep(interval).
AfterRun == "sleep"

\* The group chat manager after a delta: stop the run, or select the next
\* speaker.  Shared by the start of a run and by every agent reply.
AfterDelta(delta) ==
  IF ShouldStop(delta, message_count)
  THEN /\ stop_reason' = StopReason(delta, message_count)
       /\ message_count' = 0
       /\ speaker' = "none"
       /\ next_speaker_index' = next_speaker_index
       /\ pc' = AfterRun
  ELSE /\ stop_reason' = "none"
       /\ message_count' = CountMessages(message_count, delta)
       /\ speaker' = SelectSpeaker(next_speaker_index)
       /\ next_speaker_index' = AdvanceIndex(next_speaker_index)
       /\ pc' = "run"

\* Module level: the environment is read and the clients are set up; with
\* all of it done, main() enters run_realtime_analysis.  A failing setup
\* raises at import and ends the process.
Startup ==
  /\ pc = "startup"
  /\ pc' = IF ClientSetupSucceeds(config) THEN "loop" ELSE "startup_failed"
  /\ UNCHANGED <<config, stock_name, interval, slept, cycle, sleeps>>
  /\ UNCHANGED teamVars
  /\ UNCHANGED toolVars

\* Top of `while True`: investment_team.run_stream(task=...) starts.
StartRun ==
  /\ pc = "loop"
  /\ cycle < MaxCycles
  /\ cycle' = cycle + 1
  /\ transcript' = <<TaskMessage(stock_name)>>
  /\ message_thread' = Append(message_thread, TaskMessage(stock_name))
  /\ AfterDelta(<<TaskMessage(stock_name)>>)
  /\ UNCHANGED <<config, stock_name, interval, slept, sleeps, model_context>>
  /\ UNCHANGED toolVars

\* `agent` executes `tool`: the adapter runs against the remote service as
\* it is now, and the agent keeps the result (the returned text, or the
\* error text of what the adapter raised) for its message.
CallTool(agent, tool) ==
  /\ \E result \in
         IF tool = "realtime_stock_price_tool"
         THEN {RealtimeToolCall(outcome, remote_agents, remote_threads, next_remote_id) :
                 outcome \in RealtimeOutcomes}
         ELSE {BingToolCall(tool, outcome, remote_agents, remote_threads,
                            next_remote_id) :
                 outcome \in BingOutcomes} :
       /\ remote_agents' = result.agents
       /\ remote_threads' = result.threads
       /\ next_remote_id' = result.next_id
       /\ tool_results' = Append(tool_results, ToolResultText(result))
       /\ last_call' = [agent |-> agent, tool |-> tool, nodata |-> result.nodata,
                        raised |-> result.raised, value |-> result.value,
                        created_agents |-> result.created_agents,
                        deleted_agents |-> result.deleted_agents,
                        created_threads |-> result.created_threads]
  /\ tool_calls' = tool_calls + 1

\* The speaking agent's model backend asks for one of the agent's tools and
\* the agent executes it.  (The code puts no limit on the calls; the bound
\* keeps the driver's state space finite, and SpecTools below explores the
\* adapters in longer sequences of calls.)
ToolCall ==
  /\ pc = "run"
  /\ speaker # "none"
  /\ tool_calls < MaxToolCalls
  /\ \E tool \in Tools(speaker) : CallTool(speaker, tool)
  /\ UNCHANGED <<config, stock_name, interval, slept>>
  /\ UNCHANGED driverVars
  /\ UNCHANGED teamVars

\* The speaking agent produces its message (the tool call summary if it
\* called tools, the model's text otherwise); the team appends it and
\* applies the termination condition.
Reply ==
  /\ pc = "run"
  /\ speaker # "none"
  /\ \E text \in (IF tool_results # <<>> THEN {JoinTexts(tool_results)} ELSE Replies(speaker)) :
       LET msg == [source |-> speaker, content |-> text]
       IN /\ transcript' = Append(transcript, msg)
          /\ message_thread' = Append(message_thread, msg)
          /\ model_context' = [model_context EXCEPT ![speaker] = Len(message_thread) + 1]
          /\ AfterDelta(<<msg>>)
  /\ tool_results' = <<>>
  /\ UNCHANGED <<config, stock_name, interval, slept, cycle, sleeps, tool_calls, last_call, remote_agents, remote_threads,
                 next_remote_id>>

\* The model backend fails in the speaking agent's turn: run_stream raises,
\* and nothing in run_realtime_analysis or main catches it.
BackendError ==
  /\ pc = "run"
  /\ speaker # "none"
  /\ tool_results = <<>>
  /\ pc' = "crashed"
  /\ stop_reason' = "error"
  /\ speaker' = "none"
  /\ UNCHANGED <<config, stock_name, interval, slept, cycle, sleeps, transcript, message_thread, model_context,
                 next_speaker_index, message_count>>
  /\ UNCHANGED toolVars

\* A driver that backs off: every completed sleep doubles the interval.
WakeUp_Backoff ==
  /\ pc = "sleep"
  /\ pc' = "loop"
  /\ sleeps' = sleeps + 1
  /\ slept' = slept + interval
  /\ interval' = 2 * interval
  /\ UNCHANGED <<config, stock_name, cycle>>
  /\ UNCHANGED teamVars
  /\ UNCHANGED toolVars

\* asyncio.sleep(interval) completes; the loop goes round.
WakeUp ==
  /\ pc = "sleep"
  /\ pc' = "loop"
  /\ sleeps' = sleeps + 1
  /\ slept' = slept + interval
  /\ UNCHANGED <<config, stock_name, interval, cycle>>
  /\ UNCHANGED teamVars
  /\ UNCHANGED toolVars

Next ==
  \/ Startup
  \/ StartRun
  \/ ToolCall
  \/ Reply
  \/ BackendError
  \/ WakeUp

Spec == Init /\ [][Next]_vars

\* ------------------------------------- the termination condition alone
\* A fresh termination condition is given ever longer transcripts: the task
\* message, then one more agent message at a time, with or without the
\* marker.  stop_reason holds its verdict on the transcript.
InitEval ==
  /\ config = ConfigKeys
  /\ pc = "eval"
  /\ cycle = 0
  /\ sleeps = 0
  /\ slept = 0
  /\ stock_name = StockName
  /\ interval = Interval
  /\ transcript = <<TaskMessage(StockName)>>
  /\ stop_reason = StopReason(<<TaskMessage(StockName)>>, 0)
  /\ message_thread = <<>>
  /\ model_context = [a \in Agents |-> 0]
  /\ next_speaker_index = 0
  /\ speaker = "none"
  /\ message_count = 0
  /\ tool_results = <<>>
  /\ tool_calls = 0
  /\ last_call = NoCall
  /\ remote_agents = {}
  /\ remote_threads = {}
  /\ next_remote_id = 1

Extend ==
  /\ pc = "eval"
  /\ Len(transcript) < MaxTranscript
  /\ \E text \in {PlainReply, MarkerReply} :
       LET msg == [source |-> SelectSpeaker((Len(transcript) - 1) % Len(Roster)),
                   content |-> text]
       IN /\ transcript' = Append(transcript, msg)
          /\ stop_reason' = StopReason(Append(transcript, msg), 0)
  /\ UNCHANGED <<config, stock_name, interval, slept, pc, cycle, sleeps, message_thread, model_context, next_speaker_index,
                 speaker, message_count>>
  /\ UNCHANGED toolVars

NextEval == Extend

SpecEval == InitEval /\ [][NextEval]_vars

\* ------------------------------------------------- the tool adapters alone
\* The agents execute their tools one call after the other, each call with
\* any of its outcomes, on the remote service as the calls before have left
\* it (live agents and threads of failed calls, ids handed out).
InitTools ==
  /\ config = ConfigKeys
  /\ pc = "tools"
  /\ cycle = 0
  /\ sleeps = 0
  /\ slept = 0
  /\ stock_name = StockName
  /\ interval = Interval
  /\ transcript = <<>>
  /\ stop_reason = "none"
  /\ message_thread = <<>>
  /\ model_context = [a \in Agents |-> 0]
  /\ next_speaker_index = 0
  /\ speaker = "none"
  /\ message_count = 0
  /\ tool_results = <<>>
  /\ tool_calls = 0
  /\ last_call = NoCall
  /\ remote_agents = {}
  /\ remote_threads = {}
  /\ next_remote_id = 1

AdapterCall ==
  /\ pc = "tools"
  /\ tool_calls < MaxAdapterCalls
  /\ \E agent \in Agents : \E tool \in Tools(agent) : CallTool(agent, tool)
  /\ UNCHANGED <<config, stock_name, interval, slept>>
  /\ UNCHANGED driverVars
  /\ UNCHANGED teamVars

NextTools == AdapterCall

SpecTools == InitTools /\ [][NextTools]_vars

\* ------------------------------------------------------------- properties
\* Number of agent messages of the current run (the transcript starts with
\* the task message).
AgentTurns == Len(transcript) - 1

\* The current run has ended by its termination condition.
RunStopped == stop_reason \in {"text", "max", "both"}

HasMarker(msg) == Contains(msg.content, Marker)

\* The messages an agent's model context holds.
ModelContext(a) == SubSeq(message_thread, 1, model_context[a])

\* C1: a run that failed with a backend error does not end the driver: the
\* driver is sleeping the interval, or is about to start or is running a
\* later run.
C1_FailedRunKeepsDriverAlive ==
  stop_reason = "error" => pc \in {"sleep", "loop", "run"}

\* C2: outside a tool call no remote agent and no remote thread created by
\* a tool call is live.
C2_NoRemoteResourceOutlivesCall ==
  remote_agents = {} /\ remote_threads = {}

\* C3: when a run starts, nothing of an earlier run is left: the team's
\* thread holds the task only, no agent has any context, and the first
\* agent of the roster speaks first.
C3_RunStartsFresh ==
  (pc = "run" /\ Len(transcript) = 1) =>
    /\ message_thread = transcript
    /\ \A a \in Agents : ModelContext(a) = <<>>
    /\ speaker = Roster[1]

\* C4: an adapter called for a subject without data returns the sentinel
\* text and does not raise, and every message of the run is non-empty.
C4_NoDataGivesSentinel ==
  /\ last_call.nodata =>
       /\ ~last_call.raised
       /\ Len(last_call.value) >= 3
       /\ SubSeq(last_call.value, 1, 3) = <<"Could", "not", "fetch">>
  /\ \A i \in 1..Len(transcript) : transcript[i].content # <<>>

\* C5: in every run, turn k (from 0) is taken by agent k mod 4 of the
\* roster, for the turns done and for the turn in progress.
C5_TurnKTakenByAgentKModN ==
  /\ \A k \in 0..(AgentTurns - 1) :
       transcript[k + 2].source = Roster[(k % Len(Roster)) + 1]
  /\ (pc = "run" /\ speaker # "none") =>
       speaker = Roster[(AgentTurns % Len(Roster)) + 1]

\* C6 as stated: a run that the message maximum stops has taken 15 agent
\* turns.
C6_StopsAtFifteenthAgentMessage ==
  stop_reason = "max" => AgentTurns = MaxMessages

\* C6 as amended: a run in which no message has the marker stops exactly
\* when its transcript, the task message counted, has 15 messages, which is
\* after 14 agent turns: no run in progress has that many, and a run
\* stopped without a marker has exactly that many.
C6_StopsAtFifteenthTranscriptMessage ==
  /\ pc = "run" => Len(transcript) < MaxMessages
  /\ (RunStopped /\ \A i \in 1..Len(transcript) : ~HasMarker(transcript[i])) =>
       /\ stop_reason = "max"
       /\ Len(transcript) = MaxMessages
       /\ AgentTurns = MaxMessages - 1

C6_Witness ==
  /\ stop_reason = "max"
  /\ Len(transcript) = MaxMessages
  /\ \A i \in 1..Len(transcript) : ~HasMarker(transcript[i])

\* C7: a run never has more than the maximum of 15 agent turns (each reply
\* adds one, so a run whose turns succeed ends), and a run that has stopped
\* has had at least one agent turn.
C7_RunEndsWithinMaxTurns ==
  /\ transcript # <<>> => AgentTurns <= MaxMessages
  /\ RunStopped => AgentTurns >= 1

C7_Witness ==
  /\ RunStopped
  /\ cycle = 2
  /\ AgentTurns = 4

\* C8: the run stops on the very turn whose message has the marker: no
\* message but the last of a transcript has the marker, after a message with
\* the marker no turn is in progress, and a run stopped by the text mention
\* has the marker in its last message.
C8_StopsOnTheMarkerTurn ==
  /\ \A i \in 1..(Len(transcript) - 1) : ~HasMarker(transcript[i])
  /\ (transcript # <<>> /\ HasMarker(transcript[Len(transcript)])) =>
       /\ speaker = "none"
       /\ stop_reason \in {"text", "both"}
       /\ pc # "run"
  /\ stop_reason \in {"text", "both"} =>
       (transcript # <<>> /\ HasMarker(transcript[Len(transcript)]))

C8_Witness ==
  /\ stop_reason = "text"
  /\ transcript[Len(transcript)].source = "decision_agent"
  /\ HasMarker(transcript[Len(transcript)])
  /\ Len(transcript) > Len(Roster) + 1
  /\ Len(message_thread) > Len(transcript)

\* C9: runs are strictly ordered: while run K is running or the sleep after
\* it is going on, K - 1 sleeps have completed (none before the first run);
\* at the top of the loop every started run has ended and been slept after;
\* a turn is in progress only inside a run.
C9_RunsStrictlyOrdered ==
  /\ pc \in {"run", "sleep"} => sleeps = cycle - 1
  /\ pc = "loop" => sleeps = cycle
  /\ pc \in {"sleep", "loop"} => speaker = "none"
  /\ pc = "run" => speaker # "none"

C9_Witness ==
  /\ pc = "run"
  /\ cycle = 2
  /\ sleeps = 1
  /\ AgentTurns = 1

\* C10: the driver loop has no exit of its own: as long as nothing outside
\* stops the process, the driver is at the top of the loop, in a run or in
\* the sleep after a run.
C10_LoopHasNoExit ==
  pc \notin {"startup", "startup_failed"} => pc \in {"loop", "run", "sleep"}

\* Index in the team's thread of the first message of the current run.
RunStart == Len(message_thread) - Len(transcript) + 1

\* The transcript of the run before the current one: the part of the team's
\* thread from the previous task message up to the current run.
PrevTranscript ==
  LET starts == {i \in 1..(RunStart - 1) : message_thread[i].source = "user"}
      first == CHOOSE i \in starts : \A j \in starts : j <= i
  IN IF starts = {} THEN <<>> ELSE SubSeq(message_thread, first, RunStart - 1)

\* The backends behaved as deterministic mocks: each agent gave the same
\* text in every one of its turns.
DeterministicBackends ==
  \A i, j \in 1..Len(message_thread) :
    message_thread[i].source = message_thread[j].source =>
      message_thread[i].content = message_thread[j].content

\* C11: with deterministic backends the transcript of a finished cycle
\* equals the transcript of the cycle before it.
C11_ConsecutiveRunsSameTranscript ==
  (RunStopped /\ cycle >= 2 /\ DeterministicBackends) =>
    transcript = PrevTranscript

\* C12: the termination decision is monotonic in transcript growth: once the
\* default tree (marker OR maximum) says stop for a transcript, it says stop
\* for every extension; so do the two primitives and their AND.
C12_ShouldStopMonotonic ==
  [][/\ stop_reason # "none" => stop_reason' # "none"
     /\ ShouldStop(transcript, 0) => ShouldStop(transcript', 0)
     /\ TextMention(transcript) => TextMention(transcript')
     /\ MaxMessageReached(CountMessages(0, transcript)) =>
          MaxMessageReached(CountMessages(0, transcript'))
     /\ (TextMention(transcript) /\ MaxMessageReached(CountMessages(0, transcript))) =>
          (TextMention(transcript') /\ MaxMessageReached(CountMessages(0, transcript')))
    ]_vars

C12_Witness ==
  /\ pc = "eval"
  /\ Len(transcript) > MaxMessages
  /\ HasMarker(transcript[2])
  /\ stop_reason = "both"

\* C13: a tool is only ever called by an agent it is bound to: the trends
\* tool and the real-time price tool by stock_trends_agent, the news tool by
\* news_agent, and sentiment_agent and decision_agent call no tool; the
\* results of a turn in progress stem from such calls only.
C13_AgentsCallOnlyBoundTools ==
  /\ last_call.agent \notin {"sentiment_agent", "decision_agent"}
  /\ last_call.agent = "stock_trends_agent" =>
       last_call.tool \in {"stock_price_trends_tool", "realtime_stock_price_tool"}
  /\ last_call.agent = "news_agent" => last_call.tool = "news_analysis_tool"
  /\ last_call.agent = "none" => (last_call.tool = "none" /\ tool_calls = 0)
  /\ tool_results # <<>> =>
       (speaker = last_call.agent /\ speaker \in {"stock_trends_agent", "news_agent"})

C13_Witness ==
  /\ last_call.agent = "news_agent"
  /\ last_call.tool = "news_analysis_tool"
  /\ tool_results # <<>>

\* C14: with a required configuration value absent, startup fails and no
\* cycle is ever started: the process is at startup or has failed there, no
\* run was started and nothing was said or called.
C14_MissingConfigurationIsFatal ==
  config # ConfigKeys =>
    /\ pc \in {"startup", "startup_failed"}
    /\ cycle = 0
    /\ transcript = <<>>
    /\ message_thread = <<>>
    /\ tool_calls = 0

C14_Witness ==
  /\ pc = "startup_failed"
  /\ ConfigKeys \ config = {"BING_CONNECTION_NAME"}

\* C15: within a run the transcript only grows, by exactly one message per
\* agent turn, the speaker's; that message is there and counted when the
\* termination condition is applied and before the next agent is selected;
\* a tool call inside a turn adds no message, counts nothing toward the
\* maximum and neither stops the run nor changes the speaker.
C15_OneMessagePerTurn ==
  [][/\ (pc = "run" /\ transcript' # transcript) =>
          /\ transcript' = Append(transcript, transcript'[Len(transcript')])
          /\ transcript'[Len(transcript')].source = speaker
          /\ tool_results' = <<>>
     /\ (pc = "run" /\ pc' = "run" /\ speaker' # speaker) =>
          Len(transcript') = Len(transcript) + 1
     /\ pc' = "run" => message_count' = Len(transcript')
     /\ (pc = "run" /\ pc' = "sleep") =>
          (message_count + 1 >= MaxMessages \/ HasMarker(transcript'[Len(transcript')]))
     /\ tool_calls' # tool_calls =>
          /\ transcript' = transcript
          /\ message_count' = message_count
          /\ stop_reason' = stop_reason
          /\ speaker' = speaker
          /\ pc' = pc
    ]_vars

C15_Witness ==
  /\ pc = "run"
  /\ tool_calls > 0
  /\ tool_results = <<>>
  /\ transcript[Len(transcript)].source = last_call.agent
  /\ message_count = Len(transcript)

\* Every tool call made so far has returned (none has raised).
AllCallsReturned ==
  \A i \in 1..Len(tool_results) : tool_results[i] # ErrorText

\* C16: a call of stock_price_trends_tool or news_analysis_tool that returns
\* creates exactly one remote agent, a new one, and deletes that same agent,
\* so that the set of live remote agents is after the call what it was
\* before, whatever the remote service held before the call; after any
\* sequence of calls that all returned, the remote service holds as many live
\* agents as before the sequence (none).  A call of
\* realtime_stock_price_tool, returning or raising, creates nothing remote
\* and leaves the remote service as it was.
C16_SuccessfulCallKeepsAgents ==
  /\ [](AllCallsReturned => Cardinality(remote_agents) = 0)
  /\ [][tool_calls' # tool_calls =>
          /\ (last_call'.tool \in {"stock_price_trends_tool", "news_analysis_tool"}
              /\ ~last_call'.raised) =>
               /\ Cardinality(last_call'.created_agents) = 1
               /\ last_call'.deleted_agents = last_call'.created_agents
               /\ last_call'.created_agents \cap remote_agents = {}
               /\ remote_agents' = remote_agents
               /\ Cardinality(remote_agents') = Cardinality(remote_agents)
          /\ last_call'.tool = "realtime_stock_price_tool" =>
               /\ last_call'.created_agents = {}
               /\ last_call'.created_threads = {}
               /\ remote_agents' = remote_agents
               /\ remote_threads' = remote_threads
               /\ next_remote_id' = next_remote_id
       ]_vars

\* The third call of a sequence returns on a remote service that holds the
\* agent and the thread a failed first call has left and has handed out ids:
\* it creates and deletes a new agent, and the live agents are as before.
C16_Witness ==
  /\ pc = "tools"
  /\ tool_calls = 3
  /\ tool_results[1] = ErrorText
  /\ tool_results[2] \in {PriceText, ErrorText}
  /\ last_call.tool = "news_analysis_tool"
  /\ ~last_call.raised
  /\ last_call.value = SummaryText
  /\ last_call.created_agents = {3}
  /\ last_call.deleted_agents = {3}
  /\ remote_agents = {1}
  /\ remote_threads = {2, 4}

\* C17: subject, interval, roster and termination tree are the same for the
\* life of the process: no step changes stock_name or interval; every run
\* starts with the same task for ICICIBANK.NS; every sleep lasts 60 seconds;
\* every message of a run comes from one of the four agents of the roster;
\* and after every counted reply the run goes on exactly when the reply has
\* no "Decision Made" and fewer than 15 messages are counted.
C17_SubjectIntervalRosterFixed ==
  [][/\ stock_name' = stock_name
     /\ interval' = interval
     /\ stock_name = "ICICIBANK.NS"
     /\ interval = 60
     /\ cycle' # cycle =>
          transcript'[1] =
            [source |-> "user",
             content |-> <<"Analyze", "ICICIBANK.NS", "make", "investment", "decision">>]
     /\ sleeps' # sleeps => slept' = slept + 60
     /\ (pc = "run" /\ transcript' # transcript) =>
          /\ transcript'[Len(transcript')].source \in
               {"stock_trends_agent", "news_agent", "sentiment_agent", "decision_agent"}
          /\ pc' = "run" <=>
               (/\ ~Contains(transcript'[Len(transcript')].content, <<"Decision", "Made">>)
                /\ Len(transcript') < 15)
    ]_vars

C17_Witness ==
  /\ cycle = 2
  /\ sleeps = 1
  /\ slept = 60
  /\ pc = "run"
  /\ transcript[1].content[2] = "ICICIBANK.NS"
  /\ AgentTurns = 2
====
